---- MODULE Spec2Model ----
(***************************************************************************)
(* Model of parsers/FR.py: fetch_production (JSON rows -> production       *)
(* records) and fetch_price (XML market document -> price records).        *)
(* The HTTP request is outside the model: an invocation starts with the    *)
(* response body it received (`data` for the JSON records, `content` for   *)
(* the XML text) and the requested zone_key.                               *)
(*                                                                         *)
(* Floats are records [nan, v]: NaN, or the (small, integral) number v.    *)
(* Timestamps are numbers: production timestamps in minutes, price         *)
(* timestamps in hours from the first day of the document window.          *)
(***************************************************************************)
EXTENDS Integers, Sequences, FiniteSets, TLC

\* ------------------------------------------------------------------ bounds
\* cells of a single-row payload that differ from 0.0
MaxDeviations == 2
\* rows of a multi-row payload
MaxRows == 2
\* XML elements (day-blocks, zone-blocks, period-entries) of a free-form document
MaxEvents == 4
\* day-blocks of a document made of single-entry day-blocks
MaxBlocks == 2
\* the same for the two-invocation specification
PairMaxRows == 1
PairMaxEvents == 3

\* ------------------------------------------------------------- invocations
Inv == {1, 2}

VARIABLES fn, zone_key, data, content, pc, df, cursor, datapoints, emitted,
          obj, pos, start_date, datas, result

vars == <<fn, zone_key, data, content, pc, df, cursor, datapoints, emitted,
          obj, pos, start_date, datas, result>>

\* ------------------------------------------------------------------ floats
NaN == [nan |-> TRUE, v |-> 0]

F(x) == [nan |-> FALSE, v |-> x]

\* a + b on floats
FAdd(a, b) == IF a.nan \/ b.nan THEN NaN ELSE F(a.v + b.v)

\* a * k on floats, k an integer literal of the code
FMul(a, k) == IF a.nan THEN NaN ELSE F(a.v * k)

\* ------------------------------------------------------ production: tables
MAP_GENERATION ==
    [k \in {"nucleaire", "charbon", "gaz", "fioul", "eolien", "solaire", "bioenergies"} |->
        CASE k = "nucleaire" -> "nuclear"
          [] k = "charbon" -> "coal"
          [] k = "gaz" -> "gas"
          [] k = "fioul" -> "oil"
          [] k = "eolien" -> "wind"
          [] k = "solaire" -> "solar"
          [] k = "bioenergies" -> "biomass"]

MAP_HYDRO ==
    <<"hydraulique_fil_eau_eclusee", "hydraulique_lacs",
      "hydraulique_step_turbinage", "pompage">>

value_columns == DOMAIN MAP_GENERATION \cup {MAP_HYDRO[j] : j \in DOMAIN MAP_HYDRO}

Columns == {"date_heure"} \cup value_columns

\* -------------------------------------------------- production: JSON cells
Num(x) == [k |-> "num", v |-> x, s |-> ""]

Null == [k |-> "null", v |-> 0, s |-> ""]

Str(t) == [k |-> "str", v |-> 0, s |-> t]

Absent == [k |-> "absent", v |-> 0, s |-> ""]

\* pd.DataFrame(data): the columns are the keys some row has; a row without
\* the key gets a missing value in that column.
FrameColumns(rows) ==
    {c \in Columns : \E j \in DOMAIN rows : rows[j][c].k # "absent"}

DataFrame(rows) ==
    [j \in DOMAIN rows |->
        [c \in Columns |-> IF rows[j][c].k = "absent" THEN Null ELSE rows[j][c]]]

\* df[['date_heure'] + value_columns] raises KeyError for a column not in the frame
HasColumns(rows) == Columns \subseteq FrameColumns(rows)

\* float(x) as astype(float) applies it to one cell
CanFloat(c) == c.k \in {"num", "null"} \/ (c.k = "str" /\ c.s \in {"NaN", "nan"})

AsFloat(c) == IF c.k = "num" THEN F(c.v) ELSE NaN

CanCoerceAlways(frame) == TRUE

\* df[value_columns].astype(float) raises ValueError when one cell does not convert
CanCoerce(frame) ==
    \A j \in DOMAIN frame : \A c \in value_columns : CanFloat(frame[j][c])

\* after astype: value columns hold floats, date_heure is left as it was
Coerced(frame) ==
    [j \in DOMAIN frame |->
        [c \in Columns |-> IF c \in value_columns THEN AsFloat(frame[j][c])
                                                  ELSE frame[j][c]]]

\* arrow.get(row['date_heure']): the instant of an ISO string, in minutes
DateTable ==
    [t \in {"2021-01-01T00:00", "2021-01-01T00:15"} |->
        IF t = "2021-01-01T00:00" THEN 0 ELSE 15]

CanParseDate(c) == c.k = "str" /\ c.s \in DOMAIN DateTable

ArrowGet(c) == DateTable[c.s]

\* ------------------------------------------------- production: row -> record
is_not_nan_and_truthy_nan_ok(v) == v.nan \/ v.v # 0

is_not_nan_and_truthy(v) == IF v.nan THEN FALSE ELSE v.v # 0

Technologies == {MAP_GENERATION[k] : k \in DOMAIN MAP_GENERATION} \cup {"hydro"}

ProductionOfLacsOnly(r) ==
    [t \in Technologies |->
        IF t = "hydro" THEN r["hydraulique_lacs"]
        ELSE r[CHOOSE k \in DOMAIN MAP_GENERATION : MAP_GENERATION[k] = t]]

ProductionOf(r) ==
    [t \in Technologies |->
        IF t = "hydro"
        THEN FAdd(r["hydraulique_lacs"], r["hydraulique_fil_eau_eclusee"])
        ELSE r[CHOOSE k \in DOMAIN MAP_GENERATION : MAP_GENERATION[k] = t]]

StorageOf(r) ==
    [hydro |-> FAdd(FMul(r["pompage"], -1), FMul(r["hydraulique_step_turbinage"], -1))]

\* `if not any([...]): continue`
Gate(production) == \E t \in DOMAIN production : is_not_nan_and_truthy(production[t])

ListPrepend(list, x) == <<x>> \o list

\* datapoints.append(x)
ListAppend(list, x) == Append(list, x)

\* the local variables of invocation i live in its own frame
FrameShared(i) == 1

Frame(i) == i

NoResult == [returned |-> FALSE, value |-> <<>>]

Returned(list) == [returned |-> TRUE, value |-> list]


\* --------------------------------------------------------- price: XML text
\* The document text, in document order: a day-block opens a new child of the
\* root, a zone-block a new child of the open day-block, a period-entry a new
\* child of the open zone-block.
BlockEv(tag, date) ==
    [e |-> "block", tag |-> tag, date |-> date, granularite |-> "", perimetre |-> "",
     periode |-> 0, text |-> ""]

ItemEv(g, p) ==
    [e |-> "item", tag |-> "", date |-> 0, granularite |-> g, perimetre |-> p,
     periode |-> 0, text |-> ""]

ValueEv(periode, text) ==
    [e |-> "value", tag |-> "", date |-> 0, granularite |-> "", perimetre |-> "",
     periode |-> periode, text |-> text]

RECURSIVE FromStringFrom(_, _)
FromStringFrom(ev, tree) ==
    IF ev = <<>> THEN tree
    ELSE LET x == Head(ev)
             nb == Len(tree)
             next ==
                CASE x.e = "block" ->
                        Append(tree, [tag |-> x.tag, date |-> x.date, children |-> <<>>])
                  [] x.e = "item" ->
                        [tree EXCEPT ![nb].children =
                            Append(@, [granularite |-> x.granularite,
                                       perimetre |-> x.perimetre,
                                       children |-> <<>>])]
                  [] x.e = "value" ->
                        [tree EXCEPT ![nb].children[Len(tree[nb].children)].children =
                            Append(@, [periode |-> x.periode, text |-> x.text])]
         IN  FromStringFrom(Tail(ev), next)

\* ET.fromstring(response.content): the children of the root
FromString(ev) == FromStringFrom(ev, <<>>)

\* arrow.get(arrow.get(date).datetime, 'Europe/Paris'): start of day `date`, in
\* hours; the days of a document are 24 hours apart (no clock change among them)
DayStart(date) == 24 * date

\* start_date.replace(hours=+period)
ShiftHours(start, period) == start + period

IsSentinelNever(text) == FALSE

\* value.text == 'ND'
IsSentinel(text) == text = "ND"

\* float(value.text)
FloatTable == [t \in {"10", "20"} |-> IF t = "10" THEN 10 ELSE 20]

CanParseFloat(text) == text \in DOMAIN FloatTable

ParseFloat(text) == F(FloatTable[text])

\* item.get('granularite') == 'Global'
IsGlobal(item) == item.granularite = "Global"

ZoneMatchesAlways(zone, item) == TRUE

\* zone_key == item.get('perimetre')
ZoneMatches(zone, item) == zone = item.perimetre

\* donnesMarche.tag == 'donneesMarche'
IsMarketData(block) == block.tag = "donneesMarche"

\* ------------------------------------------- price: the dict keyed by datetime
\* A dict is the sequence of its values in insertion order, the order in which
\* datas.values() lists them.
DictHasNever(d, key) == FALSE

\* datetime in datas
DictHas(d, key) == \E j \in DOMAIN d : d[j].datetime = key

NewRecord(zone, datetime) ==
    [zoneKey |-> zone, currency |-> "EUR", datetime |-> datetime,
     source |-> "rte-france.com", hasPrice |-> FALSE, price |-> F(0)]

DictInsertFront(d, rec) == <<rec>> \o d

\* datas[datetime] = {...} for a new key
DictInsert(d, rec) == Append(d, rec)

DictSetPriceOnce(d, key, p) ==
    [j \in DOMAIN d |->
        IF d[j].datetime = key /\ ~d[j].hasPrice
        THEN [d[j] EXCEPT !.hasPrice = TRUE, !.price = p] ELSE d[j]]

\* datas[datetime]['price'] = p
DictSetPrice(d, key, p) ==
    [j \in DOMAIN d |->
        IF d[j].datetime = key
        THEN [d[j] EXCEPT !.hasPrice = TRUE, !.price = p] ELSE d[j]]


\* ------------------------------------------------------------------ inputs
Zones == {"FR", "DE"}

SeqsUpTo(S, n) == UNION {[1..k -> S] : k \in 0..n}

\* production rows
ZeroRow ==
    [c \in Columns |-> IF c = "date_heure" THEN Str("2021-01-01T00:00") ELSE Num(0)]

NullRow ==
    [c \in Columns |-> IF c = "date_heure" THEN Str("2021-01-01T00:00") ELSE Null]

ValueAlts == {Num(1), Num(-1), Null, Str("NaN"), Str("x")}

\* ZeroRow with the cells of the columns S replaced by those of f
WideRow(S, f) == [c \in Columns |-> IF c \in S THEN f[c] ELSE ZeroRow[c]]

CoreAlts(c) ==
    IF c = "date_heure" THEN {Str("2021-01-01T00:15"), Str("bad"), Absent}
    ELSE {Num(1), Str("x"), Absent}

\* rows of the multi-row payloads: the all-missing row, the all-zero row, and
\* the all-zero row with one cell changed
CoreRows ==
    {NullRow, ZeroRow}
    \cup UNION {{[ZeroRow EXCEPT ![c] = a] : a \in CoreAlts(c)}
                : c \in {"nucleaire", "hydraulique_lacs", "pompage", "date_heure"}}

\* price documents
BlockEvents == {BlockEv(t, d) : t \in {"donneesMarche", "mixtr"}, d \in {0, 1}}

ItemEvents == {ItemEv(g, p) : g \in {"Global", "Regional"}, p \in Zones}

ValueEvents == {ValueEv(h, t) : h \in {0, 24}, t \in {"ND", "10", "20", "abc"}}

\* a zone-block lies in a day-block, a period-entry in a zone-block
WellFormed(ev) ==
    \A j \in DOMAIN ev :
        \/ ev[j].e = "block"
        \/ j > 1 /\ ev[j].e = "item"
        \/ j > 1 /\ ev[j].e = "value" /\ ev[j - 1].e # "block"

\* every well-formed document of n elements
FreeDocuments(n) ==
    {ev \in [1..n -> BlockEvents \cup ItemEvents \cup ValueEvents] : WellFormed(ev)}

\* the document of Len(f) day-blocks, each with one Global zone-block holding
\* one period-entry: f[q] is the date, the perimetre and the period-entry of
\* the q-th
ChainDocument(f) ==
    [j \in 1..(3 * Len(f)) |->
        LET q == (j + 2) \div 3
        IN  CASE j % 3 = 1 -> BlockEv("donneesMarche", f[q][1])
              [] j % 3 = 2 -> ItemEv("Global", f[q][2])
              [] j % 3 = 0 -> f[q][3]]

ChainDocuments(n) == {ChainDocument(f) : f \in [1..n -> {0, 1} \X Zones \X ValueEvents]}

\* an invocation: the function called, the zone asked for, the response body
ProductionCall(z, rows) == [fn |-> "production", zone |-> z, data |-> rows, content |-> <<>>]

PriceCall(z, ev) == [fn |-> "price", zone |-> z, data |-> <<>>, content |-> ev]

\* ------------------------------------------------------------------- state
\* The invocations in `callers` are made with input `in`; the others never run.
InitWith(in, callers) ==
    /\ fn = [i \in Inv |-> IF i \in callers THEN in.fn ELSE "none"]
    /\ zone_key = [i \in Inv |-> in.zone]
    /\ data = [i \in Inv |-> IF i \in callers THEN in.data ELSE <<>>]
    /\ content = [i \in Inv |-> IF i \in callers THEN in.content ELSE <<>>]
    /\ pc = [i \in Inv |-> IF i \notin callers THEN "idle"
                           ELSE IF in.fn = "production" THEN "frame" ELSE "parse"]
    /\ df = [i \in Inv |-> <<>>]
    /\ cursor = [i \in Inv |-> 0]
    /\ datapoints = [i \in Inv |-> <<>>]
    /\ emitted = [i \in Inv |-> <<>>]
    /\ obj = [i \in Inv |-> <<>>]
    /\ pos = [i \in Inv |-> [b |-> 0, i |-> 0, v |-> 0]]
    /\ start_date = [i \in Inv |-> 0]
    /\ datas = [i \in Inv |-> <<>>]
    /\ result = [i \in Inv |-> NoResult]

\* the inputs: payloads of up to nrows core rows, single-row payloads with up to
\* ndev changed cells, documents of up to nevents elements, chains of up to
\* nblocks day-blocks
Inputs(callers, nrows, ndev, nevents, nblocks) ==
    \/ \E z \in Zones, rows \in SeqsUpTo(CoreRows, nrows) :
            InitWith(ProductionCall(z, rows), callers)
    \/ \E S \in {T \in SUBSET value_columns : Cardinality(T) \in 1..ndev} :
            \E f \in [S -> ValueAlts] :
                InitWith(ProductionCall("FR", <<WideRow(S, f)>>), callers)
    \/ \E z \in Zones, n \in 0..nevents : \E ev \in FreeDocuments(n) :
            InitWith(PriceCall(z, ev), callers)
    \/ \E z \in Zones, n \in 2..nblocks : \E ev \in ChainDocuments(n) :
            InitWith(PriceCall(z, ev), callers)

\* one invocation, of fetch_production or of fetch_price
Init == Inputs({1}, MaxRows, MaxDeviations, MaxEvents, MaxBlocks)

\* two invocations of the same function on the same zone and response body
InitPair == Inputs({1, 2}, PairMaxRows, 0, PairMaxEvents, 0)

\* --------------------------------------------------------- fetch_production
\* data = [d['fields'] ...]; df = pd.DataFrame(data); df = df[[...]]
BuildFrame(i) ==
    /\ pc[i] = "frame"
    /\ IF HasColumns(data[i])
       THEN /\ df' = [df EXCEPT ![i] = DataFrame(data[i])]
            /\ pc' = [pc EXCEPT ![i] = "astype"]
       ELSE /\ pc' = [pc EXCEPT ![i] = "error"]
            /\ UNCHANGED df
    /\ UNCHANGED <<fn, zone_key, data, content, cursor, datapoints, emitted,
                   obj, pos, start_date, datas, result>>

\* df[value_columns] = df[value_columns].astype(float); datapoints = list()
ConvertFloat(i) ==
    /\ pc[i] = "astype"
    /\ IF CanCoerce(df[i])
       THEN /\ df' = [df EXCEPT ![i] = Coerced(df[i])]
            /\ datapoints' = [datapoints EXCEPT ![Frame(i)] = <<>>]
            /\ pc' = [pc EXCEPT ![i] = "rows"]
       ELSE /\ pc' = [pc EXCEPT ![i] = "error"]
            /\ UNCHANGED <<df, datapoints>>
    /\ UNCHANGED <<fn, zone_key, data, content, cursor, emitted,
                   obj, pos, start_date, datas, result>>

ProductionRecord(zone, r) ==
    [zoneKey |-> zone, datetime |-> ArrowGet(r["date_heure"]),
     production |-> ProductionOf(r), storage |-> StorageOf(r),
     source |-> "opendata.reseaux-energies.fr"]

\* one turn of `for row in df.iterrows()`
NextRow(i) ==
    /\ pc[i] = "rows"
    /\ IF cursor[i] = Len(df[i])
       THEN /\ pc' = [pc EXCEPT ![i] = "return"]
            /\ UNCHANGED <<cursor, datapoints, emitted>>
       ELSE LET r == df[i][cursor[i] + 1]
            IN  /\ cursor' = [cursor EXCEPT ![i] = @ + 1]
                /\ IF ~Gate(ProductionOf(r))
                   THEN UNCHANGED <<pc, datapoints, emitted>>
                   ELSE IF ~CanParseDate(r["date_heure"])
                   THEN /\ pc' = [pc EXCEPT ![i] = "error"]
                        /\ UNCHANGED <<datapoints, emitted>>
                   ELSE /\ datapoints' =
                              [datapoints EXCEPT ![Frame(i)] =
                                  ListAppend(@, ProductionRecord(zone_key[i], r))]
                        /\ emitted' = [emitted EXCEPT ![Frame(i)] = ListAppend(@, cursor[i] + 1)]
                        /\ UNCHANGED pc
    /\ UNCHANGED <<fn, zone_key, data, content, df, obj, pos, start_date, datas, result>>

\* return datapoints
ReturnProduction(i) ==
    /\ pc[i] = "return" /\ fn[i] = "production"
    /\ result' = [result EXCEPT ![i] = Returned(datapoints[Frame(i)])]
    /\ pc' = [pc EXCEPT ![i] = "done"]
    /\ UNCHANGED <<fn, zone_key, data, content, df, cursor, datapoints, emitted,
                   obj, pos, start_date, datas>>

\* -------------------------------------------------------------- fetch_price
\* obj = ET.fromstring(response.content); datas = {}
ParseDocument(i) ==
    /\ pc[i] = "parse"
    /\ obj' = [obj EXCEPT ![i] = FromString(content[i])]
    /\ datas' = [datas EXCEPT ![Frame(i)] = <<>>]
    /\ pc' = [pc EXCEPT ![i] = "blocks"]
    /\ UNCHANGED <<fn, zone_key, data, content, df, cursor, datapoints, emitted,
                   pos, start_date, result>>

\* one turn of `for donnesMarche in obj`, up to the inner loop
NextBlock(i) ==
    /\ pc[i] = "blocks"
    /\ IF pos[i].b = Len(obj[i])
       THEN /\ pc' = [pc EXCEPT ![i] = "return"]
            /\ UNCHANGED <<pos, start_date>>
       ELSE LET block == obj[i][pos[i].b + 1]
            IN  IF ~IsMarketData(block)
                THEN /\ pos' = [pos EXCEPT ![i].b = @ + 1]
                     /\ UNCHANGED <<pc, start_date>>
                ELSE /\ pos' = [pos EXCEPT ![i] = [b |-> @.b + 1, i |-> 0, v |-> 0]]
                     /\ start_date' = [start_date EXCEPT ![i] = DayStart(block.date)]
                     /\ pc' = [pc EXCEPT ![i] = "items"]
    /\ UNCHANGED <<fn, zone_key, data, content, df, cursor, datapoints, emitted,
                   obj, datas, result>>

\* one turn of `for item in donnesMarche`, up to the inner loop
NextItem(i) ==
    /\ pc[i] = "items"
    /\ LET items == obj[i][pos[i].b].children
       IN  IF pos[i].i = Len(items)
           THEN /\ pc' = [pc EXCEPT ![i] = "blocks"]
                /\ UNCHANGED pos
           ELSE LET item == items[pos[i].i + 1]
                IN  IF ~IsGlobal(item) \/ ~ZoneMatches(zone_key[i], item)
                    THEN /\ pos' = [pos EXCEPT ![i].i = @ + 1]
                         /\ UNCHANGED pc
                    ELSE /\ pos' = [pos EXCEPT ![i] = [b |-> @.b, i |-> @.i + 1, v |-> 0]]
                         /\ pc' = [pc EXCEPT ![i] = "values"]
    /\ UNCHANGED <<fn, zone_key, data, content, df, cursor, datapoints, emitted,
                   obj, start_date, datas, result>>

\* one turn of `for value in item`
NextValue(i) ==
    /\ pc[i] = "values"
    /\ LET values == obj[i][pos[i].b].children[pos[i].i].children
       IN  IF pos[i].v = Len(values)
           THEN /\ pc' = [pc EXCEPT ![i] = "items"]
                /\ UNCHANGED <<pos, datas>>
           ELSE LET value == values[pos[i].v + 1]
                    datetime == ShiftHours(start_date[i], value.periode)
                    d0 == datas[Frame(i)]
                    d1 == IF DictHas(d0, datetime) THEN d0
                          ELSE DictInsert(d0, NewRecord(zone_key[i], datetime))
                IN  /\ pos' = [pos EXCEPT ![i].v = @ + 1]
                    /\ IF IsSentinel(value.text)
                       THEN UNCHANGED <<pc, datas>>
                       ELSE IF CanParseFloat(value.text)
                       THEN /\ datas' = [datas EXCEPT ![Frame(i)] =
                                            DictSetPrice(d1, datetime, ParseFloat(value.text))]
                            /\ UNCHANGED pc
                       ELSE /\ datas' = [datas EXCEPT ![Frame(i)] = d1]
                            /\ pc' = [pc EXCEPT ![i] = "error"]
    /\ UNCHANGED <<fn, zone_key, data, content, df, cursor, datapoints, emitted,
                   obj, start_date, result>>

\* return list(datas.values())
ReturnPrice(i) ==
    /\ pc[i] = "return" /\ fn[i] = "price"
    /\ result' = [result EXCEPT ![i] = Returned(datas[Frame(i)])]
    /\ pc' = [pc EXCEPT ![i] = "done"]
    /\ UNCHANGED <<fn, zone_key, data, content, df, cursor, datapoints, emitted,
                   obj, pos, start_date, datas>>

\* ----------------------------------------------------------- specifications
Next ==
    \E i \in Inv :
        \/ BuildFrame(i)
        \/ ConvertFloat(i)
        \/ NextRow(i)
        \/ ReturnProduction(i)
        \/ ParseDocument(i)
        \/ NextBlock(i)
        \/ NextItem(i)
        \/ NextValue(i)
        \/ ReturnPrice(i)

Spec == Init /\ [][Next]_vars

SpecPair == InitPair /\ [][Next]_vars


\* ------------------------------------------------------------------ claims
\* What the claims say of an invocation is stated on its input (data, content,
\* zone_key) and on what it returned (result), with the definitions below,
\* which read the input directly.

Max(S) == CHOOSE x \in S : \A y \in S : y <= x

Done(i, f) == fn[i] = f /\ pc[i] = "done" /\ result[i].returned

\* the number a JSON cell stands for, a missing or null cell being NaN
CellFloat(c) == IF c.k = "num" THEN F(c.v) ELSE NaN

Truthy(x) == ~x.nan /\ x.v # 0

\* the eight production entries of an input row
Entries(row) ==
    {CellFloat(row[c]) : c \in DOMAIN MAP_GENERATION}
    \cup {FAdd(CellFloat(row["hydraulique_lacs"]), CellFloat(row["hydraulique_fil_eau_eclusee"]))}

\* the positions in `emitted` of the records made from row j
RecordsOf(i, j) == {k \in DOMAIN emitted[i] : emitted[i][k] = j}

HydroAsStated(i, j) ==
    \A k \in RecordsOf(i, j) :
        LET row == data[i][j]
            rec == result[i].value[k]
        IN  /\ rec.production["hydro"] =
                    FAdd(CellFloat(row["hydraulique_lacs"]),
                         CellFloat(row["hydraulique_fil_eau_eclusee"]))
            /\ rec.storage["hydro"] =
                    FMul(FAdd(CellFloat(row["pompage"]),
                              CellFloat(row["hydraulique_step_turbinage"])), -1)

\* C1 as stated: when fetch_production returns, every input row with at least
\* one nonzero technology value (any of the eleven value columns) has exactly
\* one record, with hydro = lacs + fil_eau_eclusee and storage.hydro =
\* -(pompage + step_turbinage).
C1_AsStated ==
    \A i \in Inv : Done(i, "production") =>
        \A j \in DOMAIN data[i] :
            (\E c \in value_columns : Truthy(CellFloat(data[i][j][c]))) =>
                Cardinality(RecordsOf(i, j)) = 1 /\ HydroAsStated(i, j)

\* C1 as amended: when fetch_production returns, every input row with at
\* least one production entry (the seven mapped columns and the hydro sum)
\* that is neither NaN nor zero has exactly one record, with hydro = lacs +
\* fil_eau_eclusee and storage.hydro = -(pompage + step_turbinage).
C1_Amended ==
    \A i \in Inv : Done(i, "production") =>
        \A j \in DOMAIN data[i] :
            (\E x \in Entries(data[i][j]) : Truthy(x)) =>
                Cardinality(RecordsOf(i, j)) = 1 /\ HydroAsStated(i, j)

\* C1 witness: a returned record whose hydro is the sum of two nonzero columns
C1_Witness ==
    \E i \in Inv : Done(i, "production") /\
        \E j \in DOMAIN data[i] :
            /\ data[i][j]["hydraulique_lacs"] = Num(1)
            /\ data[i][j]["hydraulique_fil_eau_eclusee"] = Num(1)
            /\ RecordsOf(i, j) # {}
            /\ \A k \in RecordsOf(i, j) : result[i].value[k].production["hydro"] = F(2)

\* C2: every record fetch_production returns has a production entry that is
\* neither NaN nor zero, and a row whose production entries are all NaN,
\* absent or zero has no record.
C2_QualityGate ==
    \A i \in Inv : Done(i, "production") =>
        /\ \A k \in DOMAIN result[i].value :
                \E t \in DOMAIN result[i].value[k].production :
                    Truthy(result[i].value[k].production[t])
        /\ \A j \in DOMAIN data[i] :
                (\A x \in Entries(data[i][j]) : ~Truthy(x)) => RecordsOf(i, j) = {}

\* C2 witness: a payload with an all-NaN row, which is dropped, and a row that
\* is kept
C2_Witness ==
    \E i \in Inv : Done(i, "production") /\
        /\ \E j \in DOMAIN data[i] :
                (\A x \in Entries(data[i][j]) : x.nan) /\ RecordsOf(i, j) = {}
        /\ result[i].value # <<>>

\* C3: the records fetch_production returns are made from rows of increasing
\* index, one record per row at most, each record carrying the timestamp and
\* the mapped values of its row.
C3_RowOrder ==
    \A i \in Inv : Done(i, "production") =>
        LET out == result[i].value
            src == emitted[i]
        IN  /\ Len(out) = Len(src)
            /\ \A k \in DOMAIN src : src[k] \in DOMAIN data[i]
            /\ \A k, l \in DOMAIN src : k < l => src[k] < src[l]
            /\ \A k \in DOMAIN src :
                    /\ out[k].datetime = DateTable[data[i][src[k]]["date_heure"].s]
                    /\ \A c \in DOMAIN MAP_GENERATION :
                            out[k].production[MAP_GENERATION[c]] =
                                CellFloat(data[i][src[k]][c])

\* C3 witness: two different rows both kept
C3_Witness ==
    \E i \in Inv : Done(i, "production") /\
        /\ Len(result[i].value) = 2
        /\ result[i].value[1] # result[i].value[2]

\* --- the price document, read from its text
\* the day-block and the zone-block that the element at p lies in
BlockAt(ev, p) == ev[Max({q \in 1..p : ev[q].e = "block"})]

ItemAt(ev, p) == ev[Max({q \in 1..p : ev[q].e = "item"})]

\* the period-entries of Global zone-blocks of zone z in donneesMarche day-blocks
Selected(ev, z) ==
    {p \in DOMAIN ev :
        /\ ev[p].e = "value"
        /\ BlockAt(ev, p).tag = "donneesMarche"
        /\ ItemAt(ev, p).granularite = "Global"
        /\ ItemAt(ev, p).perimetre = z}

\* ... that are not the sentinel
Usable(ev, z) == {p \in Selected(ev, z) : ev[p].text # "ND"}

Stamp(ev, p) == 24 * BlockAt(ev, p).date + ev[p].periode

Numeric(text) == text \in {"10", "20"}

Number(text) == IF text = "10" THEN F(10) ELSE F(20)

\* C4: the sequence fetch_price returns has at most one record per
\* (zone, timestamp).
C4_OnePerTimestamp ==
    \A i \in Inv : Done(i, "price") =>
        \A k, l \in DOMAIN result[i].value :
            k # l => <<result[i].value[k].zoneKey, result[i].value[k].datetime>>
                        # <<result[i].value[l].zoneKey, result[i].value[l].datetime>>

\* C4 witness: usable entries of two different day-blocks at the same timestamp
C4_Witness ==
    \E i \in Inv : Done(i, "price") /\
        /\ \E p, q \in Usable(content[i], zone_key[i]) :
                /\ BlockAt(content[i], p).date # BlockAt(content[i], q).date
                /\ Stamp(content[i], p) = Stamp(content[i], q)
        /\ Len(result[i].value) = 1

\* the period-entry the loop of invocation i is about to read is 'ND'
AtSentinel(i) ==
    /\ pc[i] = "values"
    /\ LET values == obj[i][pos[i].b].children[pos[i].i].children
       IN  pos[i].v < Len(values) /\ values[pos[i].v + 1].text = "ND"

\* C5: the step of fetch_price that reads an 'ND' period-entry leaves the
\* accumulator as it was.
C5_SentinelFrame ==
    [][\A i \in Inv : (AtSentinel(i) /\ pos'[i] # pos[i]) => datas'[i] = datas[i]]_vars

\* C5 witness: an 'ND' entry has just been read while the accumulator holds a
\* priced record for its timestamp
C5_Witness ==
    \E i \in Inv :
        /\ pc[i] = "values" /\ pos[i].v >= 1
        /\ LET value == obj[i][pos[i].b].children[pos[i].i].children[pos[i].v]
           IN  /\ value.text = "ND"
               /\ \E k \in DOMAIN datas[i] :
                    /\ datas[i][k].datetime = start_date[i] + value.periode
                    /\ datas[i][k].hasPrice

\* C6: every record fetch_price returns carries the requested zone and comes
\* from a usable period-entry of a Global zone-block of that zone inside a
\* donneesMarche day-block.
C6_ZoneFilter ==
    \A i \in Inv : Done(i, "price") =>
        \A k \in DOMAIN result[i].value :
            LET rec == result[i].value[k]
            IN  /\ rec.zoneKey = zone_key[i]
                /\ \E p \in Usable(content[i], zone_key[i]) :
                        /\ Stamp(content[i], p) = rec.datetime
                        /\ Numeric(content[i][p].text)
                        /\ Number(content[i][p].text) = rec.price

\* C6 witness: records are returned, and a priced entry of a Global zone-block
\* of another zone is not among them
C6_Witness ==
    \E i \in Inv : Done(i, "price") /\
        /\ result[i].value # <<>>
        /\ \E p \in DOMAIN content[i] :
                /\ content[i][p].e = "value" /\ Numeric(content[i][p].text)
                /\ BlockAt(content[i], p).tag = "donneesMarche"
                /\ ItemAt(content[i], p).granularite = "Global"
                /\ ItemAt(content[i], p).perimetre # zone_key[i]
                /\ \A k \in DOMAIN result[i].value :
                        result[i].value[k].datetime # Stamp(content[i], p)

Ascending(out) == \A k, l \in DOMAIN out : k < l => out[k].datetime < out[l].datetime

\* C7 as stated: for any document, the sequence fetch_price returns is ordered
\* by timestamp ascending.
C7_AsStated == \A i \in Inv : Done(i, "price") => Ascending(result[i].value)

\* the first usable period-entry of each timestamp
Firsts(ev, z) ==
    {p \in Usable(ev, z) : \A q \in Usable(ev, z) : Stamp(ev, q) = Stamp(ev, p) => p <= q}

\* C7 as amended: the records are in the order in which their timestamps first
\* occur among the usable period-entries of the document; the sequence is
\* ascending whenever those entries occur in non-decreasing timestamp order.
C7_Amended ==
    \A i \in Inv : Done(i, "price") =>
        LET ev == content[i]
            z == zone_key[i]
            out == result[i].value
        IN  /\ \A k, l \in DOMAIN out : k < l =>
                    \E p, q \in Firsts(ev, z) :
                        p < q /\ Stamp(ev, p) = out[k].datetime
                              /\ Stamp(ev, q) = out[l].datetime
            /\ (\A p, q \in Usable(ev, z) : p < q => Stamp(ev, p) <= Stamp(ev, q))
                    => Ascending(out)

\* C7 witness: a document in timestamp order with two timestamps
C7_Witness ==
    \E i \in Inv : Done(i, "price") /\
        /\ \A p, q \in Usable(content[i], zone_key[i]) :
                p < q => Stamp(content[i], p) <= Stamp(content[i], q)
        /\ Len(result[i].value) >= 2

\* a required column that no row has
LacksColumn(rows) == \E c \in Columns : \A j \in DOMAIN rows : rows[j][c] = Absent

\* a value cell that is a string other than a spelling of NaN
HasGarbage(rows) ==
    \E j \in DOMAIN rows : \E c \in value_columns :
        rows[j][c].k = "str" /\ rows[j][c].s \notin {"NaN", "nan"}

\* a usable period-entry whose text is not a number
HasBadPrice(ev, z) == \E p \in Usable(ev, z) : ~Numeric(ev[p].text)

\* C8 as stated: an invocation whose payload lacks a required column or has a
\* value cell that does not convert to float, or whose document has a
\* non-'ND' non-numeric period value (in any zone-block of a donneesMarche
\* day-block), returns no records.
C8_AsStated ==
    \A i \in Inv :
        /\ (fn[i] = "production" /\ (LacksColumn(data[i]) \/ HasGarbage(data[i])))
                => ~result[i].returned
        /\ (fn[i] = "price" /\ \E p \in DOMAIN content[i] :
                                    /\ content[i][p].e = "value"
                                    /\ BlockAt(content[i], p).tag = "donneesMarche"
                                    /\ content[i][p].text # "ND"
                                    /\ ~Numeric(content[i][p].text))
                => ~result[i].returned

\* C8 as amended: an invocation whose payload lacks a required column or has a
\* value cell that does not convert to float, or whose document has a
\* non-'ND' non-numeric period value in a Global zone-block of the requested
\* zone inside a donneesMarche day-block, returns no records; nor does any
\* invocation that ended in an error.
C8_Amended ==
    \A i \in Inv :
        /\ (fn[i] = "production" /\ (LacksColumn(data[i]) \/ HasGarbage(data[i])))
                => ~result[i].returned
        /\ (fn[i] = "price" /\ HasBadPrice(content[i], zone_key[i]))
                => ~result[i].returned
        /\ pc[i] = "error" => result[i] = NoResult

\* C8 witness: fetch_price has failed on a period value after it had stored a
\* priced record
C8_Witness ==
    \E i \in Inv :
        /\ pc[i] = "error" /\ fn[i] = "price" /\ ~result[i].returned
        /\ \E k \in DOMAIN datas[i] : datas[i][k].hasPrice

\* C9: two invocations of the same function on the same payload and zone, run
\* in any interleaving, end alike and return the same sequence.
C9_Deterministic ==
    (\A i \in Inv : pc[i] \in {"done", "error"}) =>
        pc[1] = pc[2] /\ result[1] = result[2]

\* C9 witness: both invocations have returned records
C9_Witness ==
    /\ \A i \in Inv : pc[i] = "done" /\ result[i].returned
    /\ result[1].value # <<>>

\* C10: fetch_price returns exactly one record for each timestamp of a usable
\* period-entry, priced with the number of the last usable entry of that
\* timestamp.
C10_LastUsablePrice ==
    \A i \in Inv : Done(i, "price") =>
        LET ev == content[i]
            z == zone_key[i]
            out == result[i].value
            stamps == {Stamp(ev, p) : p \in Usable(ev, z)}
        IN  /\ {out[k].datetime : k \in DOMAIN out} = stamps
            /\ Len(out) = Cardinality(stamps)
            /\ \A k \in DOMAIN out :
                    LET last == Max({p \in Usable(ev, z) : Stamp(ev, p) = out[k].datetime})
                    IN  out[k].hasPrice /\ out[k].price = Number(ev[last].text)

\* C10 witness: two usable entries of one timestamp with different prices
C10_Witness ==
    \E i \in Inv : Done(i, "price") /\
        \E p, q \in Usable(content[i], zone_key[i]) :
            /\ p < q /\ Stamp(content[i], p) = Stamp(content[i], q)
            /\ content[i][p].text # content[i][q].text
            /\ \E k \in DOMAIN result[i].value :
                    result[i].value[k].price = Number(content[i][q].text)

====
